---- MODULE Spec2Model ----
(***************************************************************************)
(* A model of main.py: the three Keplerian physics functions, evaluated in *)
(* IEEE-754 binary64 arithmetic as CPython evaluates them, the Flask       *)
(* handler of GET /calculate, and the __main__ block.                      *)
(*                                                                         *)
(* TLC's integers are 32 bits wide, so a binary64 significand (53 bits)    *)
(* and the exact intermediate results of *, /, ** and sqrt are held as     *)
(* arbitrary-precision naturals: little-endian sequences of limbs in base  *)
(* 2^15, without high zero limbs (zero is the empty sequence).             *)
(*                                                                         *)
(* Intermediate values are passed as operator parameters rather than named *)
(* in LET, and loops are unrolled by halving, which keeps TLC's evaluation *)
(* stack and its coverage bookkeeping small.                               *)
(***************************************************************************)
EXTENDS Integers, Sequences, FiniteSets, TLC

(***************************************************************************)
(* Arbitrary-precision naturals.                                           *)
(***************************************************************************)
Base == 2^15

LimbBits == CHOOSE n \in 1..30 : 2^n = Base

Limb(x, i) == IF i >= 1 /\ i <= Len(x) THEN x[i] ELSE 0

SetMax(S) == CHOOSE i \in S : \A j \in S : j <= i

SetMin(S) == CHOOSE i \in S : \A j \in S : i <= j

Max(a, b) == IF a >= b THEN a ELSE b

Min(a, b) == IF a <= b THEN a ELSE b

TrimTo(x, nz) == IF nz = {} THEN <<>> ELSE SubSeq(x, 1, SetMax(nz))

\* x without its high zero limbs
Trim(x) == TrimTo(x, {i \in 1..Len(x) : x[i] # 0})

\* the natural n < 2^31 as limbs
BigOfInt(n) == Trim(<<n % Base, (n \div Base) % Base, n \div (Base * Base)>>)

BigIsZero(x) == Len(x) = 0

CmpAt(x, y, diff) ==
  IF diff = {} THEN 0
  ELSE IF x[SetMax(diff)] < y[SetMax(diff)] THEN -1 ELSE 1

\* -1, 0 or 1 as x < y, x = y or x > y
BigCmp(x, y) ==
  IF Len(x) < Len(y) THEN -1
  ELSE IF Len(x) > Len(y) THEN 1
  ELSE CmpAt(x, y, {i \in 1..Len(x) : x[i] # y[i]})

\* the carry out of column i, the columns s[1..i] holding sums in 0..2*Base-2
RECURSIVE CarryOut(_, _)
CarryOut(s, i) ==
  IF i = 0 THEN 0
  ELSE IF s[i] >= Base THEN 1
  ELSE IF s[i] < Base - 1 THEN 0
  ELSE CarryOut(s, i - 1)

\* the limbs of the number whose column sums (each in 0..2*Base-2) are s
Normalize(s) ==
  Trim([i \in 1..(Len(s) + 1) |-> (Limb(s, i) + CarryOut(s, i - 1)) % Base])

BigAdd(x, y) == Normalize([i \in 1..Max(Len(x), Len(y)) |-> Limb(x, i) + Limb(y, i)])

\* the borrow out of column i, the columns d[1..i] holding differences
RECURSIVE BorrowOut(_, _)
BorrowOut(d, i) ==
  IF i = 0 THEN 0
  ELSE IF d[i] < 0 THEN 1
  ELSE IF d[i] > 0 THEN 0
  ELSE BorrowOut(d, i - 1)

SubColumns(d) ==
  Trim([i \in 1..Len(d) |-> (d[i] - BorrowOut(d, i - 1) + Base) % Base])

\* x - y, for x >= y
BigSub(x, y) == SubColumns([i \in 1..Len(x) |-> x[i] - Limb(y, i)])

\* x * k + c, for 0 <= k < Base and 0 <= c < Base
BigMulSmall(x, k, c) ==
  Normalize([i \in 1..(Len(x) + 1) |->
               ((Limb(x, i) * k) % Base)
               + (IF i = 1 THEN c ELSE (x[i - 1] * k) \div Base)])

\* the sum over i in lo..hi of the low (hiPart = 0) or high (hiPart = 1) half of
\* the limb product x[i] * y[k + 1 - i], which belongs to column k
RECURSIVE ColSum(_, _, _, _, _, _)
ColSum(x, y, k, lo, hi, hiPart) ==
  IF lo > hi THEN 0
  ELSE IF lo = hi
  THEN (IF hiPart = 1 THEN (x[lo] * y[k + 1 - lo]) \div Base
                      ELSE (x[lo] * y[k + 1 - lo]) % Base)
  ELSE ColSum(x, y, k, lo, (lo + hi) \div 2, hiPart)
       + ColSum(x, y, k, (lo + hi) \div 2 + 1, hi, hiPart)

\* column k of x * y before carries: the low halves of the products of column k
\* plus the high halves of the products of column k - 1
Column(x, y, k) ==
    ColSum(x, y, k, Max(1, k + 1 - Len(y)), Min(Len(x), k), 0)
  + ColSum(x, y, k - 1, Max(1, k - Len(y)), Min(Len(x), k - 1), 1)

MulColumns(t) ==
  Normalize([k \in 1..Len(t) |->
               (t[k] % Base) + (IF k = 1 THEN 0 ELSE t[k - 1] \div Base)])

BigMul(x, y) ==
  IF BigIsZero(x) \/ BigIsZero(y) THEN <<>>
  ELSE MulColumns([k \in 1..(Len(x) + Len(y)) |-> Column(x, y, k)])

IntBitLen(n) == CHOOSE b \in 0..LimbBits : n < 2^b /\ (b = 0 \/ n >= 2^(b - 1))

\* the number of bits of x: 0 for zero, else floor(log2 x) + 1
BigBitLen(x) ==
  IF BigIsZero(x) THEN 0 ELSE LimbBits * (Len(x) - 1) + IntBitLen(x[Len(x)])

\* bit i of x, the least significant bit being bit 0
BigBit(x, i) == (Limb(x, i \div LimbBits + 1) \div 2^(i % LimbBits)) % 2

Zeros(n) == [i \in 1..n |-> 0]

\* x * 2^n
BigShl(x, n) ==
  IF BigIsZero(x) THEN <<>>
  ELSE Zeros(n \div LimbBits) \o BigMulSmall(x, 2^(n % LimbBits), 0)

ShrBy(x, q, r) ==
  IF q >= Len(x) THEN <<>>
  ELSE Trim([i \in 1..(Len(x) - q) |->
               (x[i + q] \div 2^r) + ((Limb(x, i + q + 1) % 2^r) * 2^(LimbBits - r))])

\* floor(x / 2^n)
BigShr(x, n) == ShrBy(x, n \div LimbBits, n % LimbBits)

\* TRUE iff one of the n low bits of x is set
BigLowNonZero(x, n) ==
  \E i \in 1..Len(x) :
     /\ x[i] # 0
     /\ \/ i <= n \div LimbBits
        \/ i = n \div LimbBits + 1 /\ x[i] % 2^(n % LimbBits) # 0

BigIsOdd(x) == Limb(x, 1) % 2 = 1

\* the quotient q and the shifted-in remainder r2 of one division step
DivPick(d, q, r2) ==
  IF BigCmp(r2, d) >= 0
  THEN <<BigMulSmall(q, 2, 1), BigSub(r2, d)>>
  ELSE <<BigMulSmall(q, 2, 0), r2>>

\* one step of binary long division: st = <<quotient, remainder>> so far
DivStep(n, d, i, st) == DivPick(d, st[1], BigMulSmall(st[2], 2, BigBit(n, i)))

\* the division steps for the bits hi down to lo of n: the upper half of the
\* bits first (DivThen takes its result st once it is computed), then the lower
RECURSIVE DivRange(_, _, _, _, _)
RECURSIVE DivThen(_, _, _, _, _)
DivThen(n, d, hi, lo, st) == IF Len(st) = 2 THEN DivRange(n, d, hi, lo, st) ELSE st

DivRange(n, d, hi, lo, st) ==
  IF hi < lo THEN st
  ELSE IF hi = lo THEN DivStep(n, d, hi, st)
  ELSE DivThen(n, d, (hi + lo + 1) \div 2 - 1, lo,
               DivRange(n, d, hi, (hi + lo + 1) \div 2, st))

DivFrom(n, d, k) ==
  IF k < 0 THEN << <<>>, n >>
  ELSE DivRange(n, d, k, 0, << <<>>, BigShr(n, k + 1) >>)

\* <<floor(n / d), n mod d>>, for d > 0, by binary long division
BigDivMod(n, d) == DivFrom(n, d, BigBitLen(n) - BigBitLen(d))

SqrtPick(n, r, c) == IF BigCmp(BigMul(c, c), n) <= 0 THEN c ELSE r

\* one step of the binary square root: bit i of the root is set iff it fits
SqrtStep(n, i, r) == SqrtPick(n, r, BigAdd(r, BigShl(<<1>>, i)))

\* the root's bits hi down to lo: the upper half first, then the lower
RECURSIVE SqrtRange(_, _, _, _)
RECURSIVE SqrtThen(_, _, _, _)
SqrtThen(n, hi, lo, r) == IF Len(r) >= 0 THEN SqrtRange(n, hi, lo, r) ELSE r

SqrtRange(n, hi, lo, r) ==
  IF hi < lo THEN r
  ELSE IF hi = lo THEN SqrtStep(n, hi, r)
  ELSE SqrtThen(n, (hi + lo + 1) \div 2 - 1, lo,
                SqrtRange(n, hi, (hi + lo + 1) \div 2, r))

\* floor(sqrt(n))
BigSqrt(n) == SqrtRange(n, (BigBitLen(n) + 1) \div 2, 0, <<>>)

Pow5Square(h, odd) == IF odd THEN BigMulSmall(BigMul(h, h), 5, 0) ELSE BigMul(h, h)

\* 5^n, by repeated squaring
RECURSIVE BigPow5(_)
BigPow5(n) == IF n = 0 THEN <<1>> ELSE Pow5Square(BigPow5(n \div 2), n % 2 = 1)

(***************************************************************************)
(* Python floats: IEEE-754 binary64.  A finite float is (-1)^s * m * 2^e   *)
(* with m a natural below 2^Precision, kept canonical: m >= 2^(Precision-1)*)
(* (normal) or e = ExpMin (subnormal, and zero with m = 0).  TLA+ equality *)
(* of two floats is therefore identity of their bits; Python's ==, < and   *)
(* <= are FEq, FLt and FLe.                                                *)
(***************************************************************************)
Precision == 53

ExpMin == -1074

ExpMax == 971

Fin(s, m, e) == [k |-> "fin", s |-> s, m |-> m, e |-> e]

Inf(s) == [k |-> "inf", s |-> s, m |-> <<>>, e |-> 0]

NaN == [k |-> "nan", s |-> 0, m |-> <<>>, e |-> 0]

Zero(s) == Fin(s, <<>>, ExpMin)

IsNaN(a) == a.k = "nan"

IsInf(a) == a.k = "inf"

IsFinite(a) == a.k = "fin"

IsZero(a) == a.k = "fin" /\ BigIsZero(a.m)

\* the float with significand m and exponent e: zero, or infinity on overflow
Pack(s, m, e) ==
  IF BigIsZero(m) THEN Zero(s)
  ELSE IF e > ExpMax THEN Inf(s)
  ELSE Fin(s, m, e)

\* a rounded significand that reached 2^Precision moves up one exponent
Renormalize(s, q, e) ==
  IF BigBitLen(q) > Precision THEN Pack(s, BigShr(q, 1), e + 1) ELSE Pack(s, q, e)

\* round to nearest, ties to even: q is the truncated significand, half the
\* first dropped bit, sticky whether a later dropped bit is set
RoundNearestEven(s, q, half, sticky, e) ==
  Renormalize(s, IF half /\ (sticky \/ BigIsOdd(q)) THEN BigAdd(q, <<1>>) ELSE q, e)

\* M * 2^E at the exponent e1
RoundAt(s, M, E, e1) ==
  IF e1 <= E THEN Pack(s, BigShl(M, E - e1), e1)
  ELSE RoundNearestEven(s, BigShr(M, e1 - E), BigBit(M, e1 - E - 1) = 1,
                        BigLowNonZero(M, e1 - E - 1), e1)

\* the float nearest to (-1)^s * M * 2^E, ties to even; infinity on overflow
Round(s, M, E) ==
  IF BigIsZero(M) THEN Zero(s)
  ELSE RoundAt(s, M, E, Max(E + BigBitLen(M) - Precision, ExpMin))

\* M * 2^E cut off at the exponent e1, and one unit more when up is asked for
\* and bits were cut off
DirectedAt(s, M, E, e1, up) ==
  IF e1 <= E THEN Pack(s, BigShl(M, E - e1), e1)
  ELSE Renormalize(s, IF up /\ BigLowNonZero(M, e1 - E)
                        THEN BigAdd(BigShr(M, e1 - E), <<1>>)
                        ELSE BigShr(M, e1 - E), e1)

\* one of the two floats next to (-1)^s * M * 2^E: the one nearer to zero, or
\* (up) the one farther from it; the value itself when it is a float
RoundDirected(s, M, E, up) ==
  IF BigIsZero(M) THEN Zero(s)
  ELSE DirectedAt(s, M, E, Max(E + BigBitLen(M) - Precision, ExpMin), up)

\* M with a sticky bit appended: rounds as any value strictly between M and M + 1
Sticky(M, inexact) == BigMulSmall(M, 2, IF inexact THEN 1 ELSE 0)

\* the float of a Python int 0 <= n < 2^31
IntToFloat(n) == Round(0, BigOfInt(n), 0)

FNeg(a) == IF IsNaN(a) THEN a ELSE [a EXCEPT !.s = 1 - a.s]

\* -1, 0, 1 as |a| < |b|, |a| = |b|, |a| > |b|, for finite a and b
MagCmp(a, b) ==
  IF a.e < b.e THEN -1
  ELSE IF a.e > b.e THEN 1
  ELSE BigCmp(a.m, b.m)

\* Python's a < b
FLt(a, b) ==
  IF IsNaN(a) \/ IsNaN(b) THEN FALSE
  ELSE IF IsZero(a) /\ IsZero(b) THEN FALSE
  ELSE IF a.s # b.s THEN a.s = 1
  ELSE IF IsInf(a) THEN a.s = 1 /\ ~IsInf(b)
  ELSE IF IsInf(b) THEN b.s = 0
  ELSE IF a.s = 0 THEN MagCmp(a, b) < 0 ELSE MagCmp(a, b) > 0

\* Python's a == b
FEq(a, b) ==
  IF IsNaN(a) \/ IsNaN(b) THEN FALSE
  ELSE IF IsZero(a) /\ IsZero(b) THEN TRUE
  ELSE a = b

\* Python's a <= b
FLe(a, b) == FLt(a, b) \/ FEq(a, b)

\* a * b
FMul(a, b) ==
  IF IsNaN(a) \/ IsNaN(b) THEN NaN
  ELSE IF IsInf(a) \/ IsInf(b)
  THEN (IF IsZero(a) \/ IsZero(b) THEN NaN ELSE Inf((a.s + b.s) % 2))
  ELSE Round((a.s + b.s) % 2, BigMul(a.m, b.m), a.e + b.e)

DivRound(s, qr, E) == Round(s, Sticky(qr[1], ~BigIsZero(qr[2])), E)

\* the quotient of finite nonzero a, b, the dividend shifted left sh bits so that
\* the integer quotient has at least Precision + 2 bits
DivShifted(a, b, sh) ==
  DivRound((a.s + b.s) % 2, BigDivMod(BigShl(a.m, sh), b.m), a.e - sh - b.e - 1)

\* a / b for b # 0 (Python raises ZeroDivisionError before dividing by zero)
FDiv(a, b) ==
  IF IsNaN(a) \/ IsNaN(b) THEN NaN
  ELSE IF IsInf(a) THEN (IF IsInf(b) THEN NaN ELSE Inf((a.s + b.s) % 2))
  ELSE IF IsInf(b) \/ IsZero(a) THEN Zero((a.s + b.s) % 2)
  ELSE DivShifted(a, b, Max(0, Precision + 2 + BigBitLen(b.m) - BigBitLen(a.m)))

\* A * 2^E + B * 2^E, or A * 2^E - B * 2^E
AddAligned(s, A, B, E, subtract) ==
  Round(s, IF subtract THEN BigSub(A, B) ELSE BigAdd(A, B), E)

\* |a| + |b| or |a| - |b| (for |a| >= |b|) of finite nonzero a, b, with the sign s;
\* an operand more than Precision + 3 binary places below the other only
\* decides the rounding, so it is replaced by a sticky bit
AddMag(s, a, b, subtract) ==
  IF a.e - b.e > Precision + 3
  THEN AddAligned(s, BigShl(a.m, 3), <<1>>, a.e - 3, subtract)
  ELSE AddAligned(s, BigShl(a.m, a.e - b.e), b.m, b.e, subtract)

\* a + b for finite nonzero a, b, c being MagCmp(a, b)
AddFinite(a, b, c) ==
  IF a.s # b.s /\ c = 0 THEN Zero(0)
  ELSE IF c >= 0 THEN AddMag(a.s, a, b, a.s # b.s)
  ELSE AddMag(b.s, b, a, a.s # b.s)

\* a + b
FAdd(a, b) ==
  IF IsNaN(a) \/ IsNaN(b) THEN NaN
  ELSE IF IsInf(a) THEN (IF IsInf(b) /\ a.s # b.s THEN NaN ELSE a)
  ELSE IF IsInf(b) THEN b
  ELSE IF IsZero(a) /\ IsZero(b) THEN Zero(IF a.s = 1 /\ b.s = 1 THEN 1 ELSE 0)
  ELSE IF IsZero(a) THEN b
  ELSE IF IsZero(b) THEN a
  ELSE AddFinite(a, b, MagCmp(a, b))

\* a - b
FSub(a, b) == FAdd(a, FNeg(b))

SqrtRound(N, r, E) == Round(0, Sticky(r, BigCmp(BigMul(r, r), N) # 0), E)

SqrtOf(N, E) == SqrtRound(N, BigSqrt(N), E \div 2 - 1)

\* the square root of m * 2^e with m shifted left by need or need + 1 bits,
\* whichever makes the exponent even
SqrtShifted(a, need) ==
  IF (a.e - need) % 2 = 0
  THEN SqrtOf(BigShl(a.m, need), a.e - need)
  ELSE SqrtOf(BigShl(a.m, need + 1), a.e - need - 1)

\* the correctly rounded square root of a finite a > 0
SqrtFinite(a) == SqrtShifted(a, Max(0, 2 * Precision + 4 - BigBitLen(a.m)))

(***************************************************************************)
(* The outcome of evaluating a Python expression: a value or an exception. *)
(***************************************************************************)
Ret(v) == [exc |-> "none", val |-> v]

Raise(name) == [exc |-> name, val |-> NaN]

Raised(r) == r.exc # "none"

(***************************************************************************)
(* float(str), as CPython's float_new / PyFloat_FromString does it on a    *)
(* sequence of characters: every non-ASCII space becomes a space and every *)
(* non-ASCII decimal digit its ASCII digit, surrounding whitespace is      *)
(* stripped, underscores between digits are dropped, then [sign] inf |     *)
(* infinity | nan, or a decimal numeral with optional fraction and         *)
(* exponent, is converted to the nearest double.  Anything else is a       *)
(* ValueError.                                                             *)
(*                                                                         *)
(* A character is a string: the character itself, or, for a character of   *)
(* a str that a TLA+ string cannot hold, the token "U+" followed by its    *)
(* code point in four to six upper-case hexadecimal digits ("U+FF17").     *)
(***************************************************************************)
DigitVal ==
  ("0" :> 0) @@ ("1" :> 1) @@ ("2" :> 2) @@ ("3" :> 3) @@ ("4" :> 4) @@
  ("5" :> 5) @@ ("6" :> 6) @@ ("7" :> 7) @@ ("8" :> 8) @@ ("9" :> 9)

IsDigit(c) == c \in DOMAIN DigitVal

\* the vertical tab, U+000B
VerticalTab == ""

\* what C's isspace() takes in the C locale: space, \t, \n, \v, \f, \r
IsSpace(c) == c \in {" ", "\t", "\n", VerticalTab, "\f", "\r"}

\* the next line control U+0085 and the no-break space U+00A0, as characters
NextLine == ""

NoBreakSpace == " "

\* the non-ASCII characters with the Unicode property White_Space
UnicodeSpaces ==
  { NextLine, NoBreakSpace,
    "U+0085", "U+00A0", "U+1680", 
    "U+2000", "U+2001", "U+2002", "U+2003", "U+2004", "U+2005", "U+2006", "U+2007", "U+2008", "U+2009", "U+200A", 
    "U+2028", "U+2029", "U+202F", "U+205F", "U+3000" }

AsciiDigits == <<"0", "1", "2", "3", "4", "5", "6", "7", "8", "9">>

\* the non-ASCII characters with a decimal digit value (Unicode 14, category
\* Nd), each run in the order of the values 0 to 9
UnicodeDecimalRuns ==
  {
    <<"U+0660", "U+0661", "U+0662", "U+0663", "U+0664",
      "U+0665", "U+0666", "U+0667", "U+0668", "U+0669">>,
    <<"U+06F0", "U+06F1", "U+06F2", "U+06F3", "U+06F4",
      "U+06F5", "U+06F6", "U+06F7", "U+06F8", "U+06F9">>,
    <<"U+07C0", "U+07C1", "U+07C2", "U+07C3", "U+07C4",
      "U+07C5", "U+07C6", "U+07C7", "U+07C8", "U+07C9">>,
    <<"U+0966", "U+0967", "U+0968", "U+0969", "U+096A",
      "U+096B", "U+096C", "U+096D", "U+096E", "U+096F">>,
    <<"U+09E6", "U+09E7", "U+09E8", "U+09E9", "U+09EA",
      "U+09EB", "U+09EC", "U+09ED", "U+09EE", "U+09EF">>,
    <<"U+0A66", "U+0A67", "U+0A68", "U+0A69", "U+0A6A",
      "U+0A6B", "U+0A6C", "U+0A6D", "U+0A6E", "U+0A6F">>,
    <<"U+0AE6", "U+0AE7", "U+0AE8", "U+0AE9", "U+0AEA",
      "U+0AEB", "U+0AEC", "U+0AED", "U+0AEE", "U+0AEF">>,
    <<"U+0B66", "U+0B67", "U+0B68", "U+0B69", "U+0B6A",
      "U+0B6B", "U+0B6C", "U+0B6D", "U+0B6E", "U+0B6F">>,
    <<"U+0BE6", "U+0BE7", "U+0BE8", "U+0BE9", "U+0BEA",
      "U+0BEB", "U+0BEC", "U+0BED", "U+0BEE", "U+0BEF">>,
    <<"U+0C66", "U+0C67", "U+0C68", "U+0C69", "U+0C6A",
      "U+0C6B", "U+0C6C", "U+0C6D", "U+0C6E", "U+0C6F">>,
    <<"U+0CE6", "U+0CE7", "U+0CE8", "U+0CE9", "U+0CEA",
      "U+0CEB", "U+0CEC", "U+0CED", "U+0CEE", "U+0CEF">>,
    <<"U+0D66", "U+0D67", "U+0D68", "U+0D69", "U+0D6A",
      "U+0D6B", "U+0D6C", "U+0D6D", "U+0D6E", "U+0D6F">>,
    <<"U+0DE6", "U+0DE7", "U+0DE8", "U+0DE9", "U+0DEA",
      "U+0DEB", "U+0DEC", "U+0DED", "U+0DEE", "U+0DEF">>,
    <<"U+0E50", "U+0E51", "U+0E52", "U+0E53", "U+0E54",
      "U+0E55", "U+0E56", "U+0E57", "U+0E58", "U+0E59">>,
    <<"U+0ED0", "U+0ED1", "U+0ED2", "U+0ED3", "U+0ED4",
      "U+0ED5", "U+0ED6", "U+0ED7", "U+0ED8", "U+0ED9">>,
    <<"U+0F20", "U+0F21", "U+0F22", "U+0F23", "U+0F24",
      "U+0F25", "U+0F26", "U+0F27", "U+0F28", "U+0F29">>,
    <<"U+1040", "U+1041", "U+1042", "U+1043", "U+1044",
      "U+1045", "U+1046", "U+1047", "U+1048", "U+1049">>,
    <<"U+1090", "U+1091", "U+1092", "U+1093", "U+1094",
      "U+1095", "U+1096", "U+1097", "U+1098", "U+1099">>,
    <<"U+17E0", "U+17E1", "U+17E2", "U+17E3", "U+17E4",
      "U+17E5", "U+17E6", "U+17E7", "U+17E8", "U+17E9">>,
    <<"U+1810", "U+1811", "U+1812", "U+1813", "U+1814",
      "U+1815", "U+1816", "U+1817", "U+1818", "U+1819">>,
    <<"U+1946", "U+1947", "U+1948", "U+1949", "U+194A",
      "U+194B", "U+194C", "U+194D", "U+194E", "U+194F">>,
    <<"U+19D0", "U+19D1", "U+19D2", "U+19D3", "U+19D4",
      "U+19D5", "U+19D6", "U+19D7", "U+19D8", "U+19D9">>,
    <<"U+1A80", "U+1A81", "U+1A82", "U+1A83", "U+1A84",
      "U+1A85", "U+1A86", "U+1A87", "U+1A88", "U+1A89">>,
    <<"U+1A90", "U+1A91", "U+1A92", "U+1A93", "U+1A94",
      "U+1A95", "U+1A96", "U+1A97", "U+1A98", "U+1A99">>,
    <<"U+1B50", "U+1B51", "U+1B52", "U+1B53", "U+1B54",
      "U+1B55", "U+1B56", "U+1B57", "U+1B58", "U+1B59">>,
    <<"U+1BB0", "U+1BB1", "U+1BB2", "U+1BB3", "U+1BB4",
      "U+1BB5", "U+1BB6", "U+1BB7", "U+1BB8", "U+1BB9">>,
    <<"U+1C40", "U+1C41", "U+1C42", "U+1C43", "U+1C44",
      "U+1C45", "U+1C46", "U+1C47", "U+1C48", "U+1C49">>,
    <<"U+1C50", "U+1C51", "U+1C52", "U+1C53", "U+1C54",
      "U+1C55", "U+1C56", "U+1C57", "U+1C58", "U+1C59">>,
    <<"U+A620", "U+A621", "U+A622", "U+A623", "U+A624",
      "U+A625", "U+A626", "U+A627", "U+A628", "U+A629">>,
    <<"U+A8D0", "U+A8D1", "U+A8D2", "U+A8D3", "U+A8D4",
      "U+A8D5", "U+A8D6", "U+A8D7", "U+A8D8", "U+A8D9">>,
    <<"U+A900", "U+A901", "U+A902", "U+A903", "U+A904",
      "U+A905", "U+A906", "U+A907", "U+A908", "U+A909">>,
    <<"U+A9D0", "U+A9D1", "U+A9D2", "U+A9D3", "U+A9D4",
      "U+A9D5", "U+A9D6", "U+A9D7", "U+A9D8", "U+A9D9">>,
    <<"U+A9F0", "U+A9F1", "U+A9F2", "U+A9F3", "U+A9F4",
      "U+A9F5", "U+A9F6", "U+A9F7", "U+A9F8", "U+A9F9">>,
    <<"U+AA50", "U+AA51", "U+AA52", "U+AA53", "U+AA54",
      "U+AA55", "U+AA56", "U+AA57", "U+AA58", "U+AA59">>,
    <<"U+ABF0", "U+ABF1", "U+ABF2", "U+ABF3", "U+ABF4",
      "U+ABF5", "U+ABF6", "U+ABF7", "U+ABF8", "U+ABF9">>,
    <<"U+FF10", "U+FF11", "U+FF12", "U+FF13", "U+FF14",
      "U+FF15", "U+FF16", "U+FF17", "U+FF18", "U+FF19">>,
    <<"U+104A0", "U+104A1", "U+104A2", "U+104A3", "U+104A4",
      "U+104A5", "U+104A6", "U+104A7", "U+104A8", "U+104A9">>,
    <<"U+10D30", "U+10D31", "U+10D32", "U+10D33", "U+10D34",
      "U+10D35", "U+10D36", "U+10D37", "U+10D38", "U+10D39">>,
    <<"U+11066", "U+11067", "U+11068", "U+11069", "U+1106A",
      "U+1106B", "U+1106C", "U+1106D", "U+1106E", "U+1106F">>,
    <<"U+110F0", "U+110F1", "U+110F2", "U+110F3", "U+110F4",
      "U+110F5", "U+110F6", "U+110F7", "U+110F8", "U+110F9">>,
    <<"U+11136", "U+11137", "U+11138", "U+11139", "U+1113A",
      "U+1113B", "U+1113C", "U+1113D", "U+1113E", "U+1113F">>,
    <<"U+111D0", "U+111D1", "U+111D2", "U+111D3", "U+111D4",
      "U+111D5", "U+111D6", "U+111D7", "U+111D8", "U+111D9">>,
    <<"U+112F0", "U+112F1", "U+112F2", "U+112F3", "U+112F4",
      "U+112F5", "U+112F6", "U+112F7", "U+112F8", "U+112F9">>,
    <<"U+11450", "U+11451", "U+11452", "U+11453", "U+11454",
      "U+11455", "U+11456", "U+11457", "U+11458", "U+11459">>,
    <<"U+114D0", "U+114D1", "U+114D2", "U+114D3", "U+114D4",
      "U+114D5", "U+114D6", "U+114D7", "U+114D8", "U+114D9">>,
    <<"U+11650", "U+11651", "U+11652", "U+11653", "U+11654",
      "U+11655", "U+11656", "U+11657", "U+11658", "U+11659">>,
    <<"U+116C0", "U+116C1", "U+116C2", "U+116C3", "U+116C4",
      "U+116C5", "U+116C6", "U+116C7", "U+116C8", "U+116C9">>,
    <<"U+11730", "U+11731", "U+11732", "U+11733", "U+11734",
      "U+11735", "U+11736", "U+11737", "U+11738", "U+11739">>,
    <<"U+118E0", "U+118E1", "U+118E2", "U+118E3", "U+118E4",
      "U+118E5", "U+118E6", "U+118E7", "U+118E8", "U+118E9">>,
    <<"U+11950", "U+11951", "U+11952", "U+11953", "U+11954",
      "U+11955", "U+11956", "U+11957", "U+11958", "U+11959">>,
    <<"U+11C50", "U+11C51", "U+11C52", "U+11C53", "U+11C54",
      "U+11C55", "U+11C56", "U+11C57", "U+11C58", "U+11C59">>,
    <<"U+11D50", "U+11D51", "U+11D52", "U+11D53", "U+11D54",
      "U+11D55", "U+11D56", "U+11D57", "U+11D58", "U+11D59">>,
    <<"U+11DA0", "U+11DA1", "U+11DA2", "U+11DA3", "U+11DA4",
      "U+11DA5", "U+11DA6", "U+11DA7", "U+11DA8", "U+11DA9">>,
    <<"U+16A60", "U+16A61", "U+16A62", "U+16A63", "U+16A64",
      "U+16A65", "U+16A66", "U+16A67", "U+16A68", "U+16A69">>,
    <<"U+16AC0", "U+16AC1", "U+16AC2", "U+16AC3", "U+16AC4",
      "U+16AC5", "U+16AC6", "U+16AC7", "U+16AC8", "U+16AC9">>,
    <<"U+16B50", "U+16B51", "U+16B52", "U+16B53", "U+16B54",
      "U+16B55", "U+16B56", "U+16B57", "U+16B58", "U+16B59">>,
    <<"U+1D7CE", "U+1D7CF", "U+1D7D0", "U+1D7D1", "U+1D7D2",
      "U+1D7D3", "U+1D7D4", "U+1D7D5", "U+1D7D6", "U+1D7D7">>,
    <<"U+1D7D8", "U+1D7D9", "U+1D7DA", "U+1D7DB", "U+1D7DC",
      "U+1D7DD", "U+1D7DE", "U+1D7DF", "U+1D7E0", "U+1D7E1">>,
    <<"U+1D7E2", "U+1D7E3", "U+1D7E4", "U+1D7E5", "U+1D7E6",
      "U+1D7E7", "U+1D7E8", "U+1D7E9", "U+1D7EA", "U+1D7EB">>,
    <<"U+1D7EC", "U+1D7ED", "U+1D7EE", "U+1D7EF", "U+1D7F0",
      "U+1D7F1", "U+1D7F2", "U+1D7F3", "U+1D7F4", "U+1D7F5">>,
    <<"U+1D7F6", "U+1D7F7", "U+1D7F8", "U+1D7F9", "U+1D7FA",
      "U+1D7FB", "U+1D7FC", "U+1D7FD", "U+1D7FE", "U+1D7FF">>,
    <<"U+1E140", "U+1E141", "U+1E142", "U+1E143", "U+1E144",
      "U+1E145", "U+1E146", "U+1E147", "U+1E148", "U+1E149">>,
    <<"U+1E2F0", "U+1E2F1", "U+1E2F2", "U+1E2F3", "U+1E2F4",
      "U+1E2F5", "U+1E2F6", "U+1E2F7", "U+1E2F8", "U+1E2F9">>,
    <<"U+1E950", "U+1E951", "U+1E952", "U+1E953", "U+1E954",
      "U+1E955", "U+1E956", "U+1E957", "U+1E958", "U+1E959">>,
    <<"U+1FBF0", "U+1FBF1", "U+1FBF2", "U+1FBF3", "U+1FBF4",
      "U+1FBF5", "U+1FBF6", "U+1FBF7", "U+1FBF8", "U+1FBF9">> }

\* the ASCII digit of each of them
UnicodeDecimal ==
  [c \in UNION {{r[d] : d \in 1..10} : r \in UnicodeDecimalRuns} |->
     AsciiDigits[CHOOSE d \in 1..10 : \E r \in UnicodeDecimalRuns : r[d] = c]]

\* DEL and the other characters of Latin-1 above ASCII, as characters
Latin1Others ==
  { "", "", "", "", "", "", "", "", "", "", "", "", "", "", "", "",
    "", "", "", "", "", "", "", "", "", "", "", "", "", "", "", "",
    "¡", "¢", "£", "¤", "¥", "¦", "§", "¨", "©", "ª", "«", "¬", "­", "®", "¯", "°",
    "±", "²", "³", "´", "µ", "¶", "·", "¸", "¹", "º", "»", "¼", "½", "¾", "¿", "À",
    "Á", "Â", "Ã", "Ä", "Å", "Æ", "Ç", "È", "É", "Ê", "Ë", "Ì", "Í", "Î", "Ï", "Ð",
    "Ñ", "Ò", "Ó", "Ô", "Õ", "Ö", "×", "Ø", "Ù", "Ú", "Û", "Ü", "Ý", "Þ", "ß", "à",
    "á", "â", "ã", "ä", "å", "æ", "ç", "è", "é", "ê", "ë", "ì", "í", "î", "ï", "ð",
    "ñ", "ò", "ó", "ô", "õ", "ö", "÷", "ø", "ù", "ú", "û", "ü", "ý", "þ", "ÿ" }

\* a character float() replaces or gives up on: one that is not below U+007F
NonAscii(c) == Len(c) > 1 \/ c \in UnicodeSpaces \/ c \in Latin1Others

\* a non-ASCII character that is neither a space nor a decimal digit
Untransformable(c) ==
  NonAscii(c) /\ c \notin UnicodeSpaces /\ c \notin DOMAIN UnicodeDecimal

TransformChar(c) ==
  IF ~NonAscii(c) THEN c
  ELSE IF c \in UnicodeSpaces THEN " "
  ELSE IF c \in DOMAIN UnicodeDecimal THEN UnicodeDecimal[c]
  ELSE "?"

\* the text up to and with its first untransformable character, transformed
TransformTo(t, bad) ==
  [i \in 1..(IF bad = {} THEN Len(t) ELSE SetMin(bad)) |-> TransformChar(t[i])]

\* _PyUnicode_TransformDecimalAndSpaceToASCII
Transform(t) == TransformTo(t, {i \in 1..Len(t) : Untransformable(t[i])})

ToLower ==
  ("I" :> "i") @@ ("N" :> "n") @@ ("F" :> "f") @@ ("T" :> "t") @@
  ("Y" :> "y") @@ ("A" :> "a") @@ ("E" :> "e")

Lower(c) == IF c \in DOMAIN ToLower THEN ToLower[c] ELSE c

LowerAll(t) == [i \in 1..Len(t) |-> Lower(t[i])]

StripTo(t, ns) == IF ns = {} THEN <<>> ELSE SubSeq(t, SetMin(ns), SetMax(ns))

\* t without leading and trailing whitespace
Strip(t) == StripTo(t, {i \in 1..Len(t) : ~IsSpace(t[i])})

\* an underscore is allowed only between two digits
UnderscoresOk(t) ==
  \A i \in 1..Len(t) :
     t[i] = "_" => /\ i > 1 /\ IsDigit(t[i - 1])
                   /\ i < Len(t) /\ IsDigit(t[i + 1])

NotUnderscore(c) == c # "_"

DropUnderscores(t) == SelectSeq(t, NotUnderscore)

\* the first index >= i of t that holds no digit (Len(t) + 1 if there is none)
DigitsEnd(t, i) ==
  IF i > Len(t) THEN i
  ELSE SetMin({j \in i..(Len(t) + 1) : j > Len(t) \/ ~IsDigit(t[j])})

\* acc followed by the digits t[i..j], as a natural in limbs
RECURSIVE DigitsValue(_, _, _, _)
DigitsValue(t, i, j, acc) ==
  IF i > j \/ Len(acc) < 0 THEN acc
  ELSE DigitsValue(t, i + 1, j, BigMulSmall(acc, 10, DigitVal[t[i]]))

\* the largest exponent float() reads: what is written above it counts as it
MaxAbsExp == 1100000000

RECURSIVE SmallValue(_, _, _, _)
SmallValue(t, i, j, acc) ==
  IF i > j THEN acc
  ELSE SmallValue(t, i + 1, j, acc * 10 + DigitVal[t[i]])

\* the first index >= i of t that holds no "0" (j + 1 if t[i..j] is all zeros)
ZerosEnd(t, i, j) == SetMin({k \in i..(j + 1) : k > j \/ t[k] # "0"})

\* the exponent digits t[i..j] without their leading zeros t[i..z-1]: their
\* value, or MaxAbsExp when more than nine digits are left
ExpFrom(t, z, j) == IF j - z + 1 > 9 THEN MaxAbsExp ELSE SmallValue(t, z, j, 0)

ExpValue(t, i, j) == ExpFrom(t, ZerosEnd(t, i, j), j)

DecShifted(s, D, P, e10, sh) == DivRound(s, BigDivMod(BigShl(D, sh), P), e10 - sh - 1)

\* D / 5^n * 2^e10, with P = 5^n
DecDivide(s, D, P, e10) ==
  DecShifted(s, D, P, e10, Max(0, Precision + 2 + BigBitLen(P) - BigBitLen(D)))

\* the double nearest to (-1)^s * D * 10^e10, D having at most nd decimal digits
DecToFloat(s, D, nd, e10) ==
  IF BigIsZero(D) THEN Zero(s)
  ELSE IF e10 > 310 THEN Inf(s)
  ELSE IF nd + e10 < -324 THEN Zero(s)
  ELSE IF e10 >= 0 THEN Round(s, BigMul(D, BigPow5(e10)), e10)
  ELSE DecDivide(s, D, BigPow5(0 - e10), e10)

\* the numeral u has nInt integer digits, fraction digits u[fBeg..fEnd-1] and
\* the decimal exponent e10
Convert(s, u, nInt, fBeg, fEnd, e10) ==
  Ret(DecToFloat(s, DigitsValue(u, fBeg, fEnd - 1, DigitsValue(u, 1, nInt, <<>>)),
                 nInt + fEnd - fBeg, e10 - (fEnd - fBeg)))

\* the exponent digits are u[eBeg..eEnd-1] and must end the numeral
ParseExpDigits(s, u, nInt, fBeg, fEnd, eNeg, eBeg, eEnd) ==
  IF eEnd = eBeg \/ eEnd # Len(u) + 1 THEN Raise("ValueError")
  ELSE Convert(s, u, nInt, fBeg, fEnd,
               IF eNeg THEN 0 - ExpValue(u, eBeg, eEnd - 1)
                       ELSE ExpValue(u, eBeg, eEnd - 1))

\* after the mantissa: an exponent (e|E) [sign] digits, or the end
ParseExponent(s, u, nInt, fBeg, fEnd) ==
  IF nInt + fEnd - fBeg = 0 THEN Raise("ValueError")
  ELSE IF fEnd <= Len(u) /\ Lower(u[fEnd]) = "e"
  THEN (IF fEnd + 1 <= Len(u) /\ u[fEnd + 1] \in {"+", "-"}
        THEN ParseExpDigits(s, u, nInt, fBeg, fEnd, u[fEnd + 1] = "-",
                            fEnd + 2, DigitsEnd(u, fEnd + 2))
        ELSE ParseExpDigits(s, u, nInt, fBeg, fEnd, FALSE,
                            fEnd + 1, DigitsEnd(u, fEnd + 1)))
  ELSE IF fEnd # Len(u) + 1 THEN Raise("ValueError")
  ELSE Convert(s, u, nInt, fBeg, fEnd, 0)

\* after the integer digits, which end before iEnd: an optional fraction
ParseFraction(s, u, iEnd) ==
  IF iEnd <= Len(u) /\ u[iEnd] = "."
  THEN ParseExponent(s, u, iEnd - 1, iEnd + 1, DigitsEnd(u, iEnd + 1))
  ELSE ParseExponent(s, u, iEnd - 1, iEnd, iEnd)

\* the numeral u (sign already removed): digits [. digits] [(e|E) [sign] digits]
ParseDecimal(s, u) == ParseFraction(s, u, DigitsEnd(u, 1))

FloatOfWord(s, u, word) ==
  IF word = <<"i", "n", "f">> \/ word = <<"i", "n", "f", "i", "n", "i", "t", "y">>
  THEN Ret(Inf(s))
  ELSE IF word = <<"n", "a", "n">> THEN Ret(NaN)
  ELSE ParseDecimal(s, u)

FloatOfNumeral(u) ==
  IF Len(u) > 0 /\ u[1] \in {"+", "-"}
  THEN FloatOfWord(IF u[1] = "-" THEN 1 ELSE 0, Tail(u), LowerAll(Tail(u)))
  ELSE FloatOfWord(0, u, LowerAll(u))

FloatOfStripped(t) ==
  IF UnderscoresOk(t) THEN FloatOfNumeral(DropUnderscores(t)) ELSE Raise("ValueError")

\* float(t) for a str t
PyFloat(t) == FloatOfStripped(Strip(Transform(t)))

\* a float literal of the source text
Literal(t) == PyFloat(t).val

(***************************************************************************)
(* The operators of main.py's arithmetic, with Python's exceptions.        *)
(***************************************************************************)
Pow3Result(r) == IF IsInf(r) THEN Raise("OverflowError") ELSE Ret(r)

\* a ** 3, which is libm's pow(a, 3.0): nan and infinities pass through, a
\* finite result that overflows raises OverflowError, one that underflows is a
\* zero or a subnormal.  pow is not correctly rounded: its error is below one
\* unit in the last place, so it returns one of the two floats next to the
\* exact cube, which one depending on the libm; up is that libm's choice.
PyPow3(a, up) ==
  IF IsNaN(a) THEN Ret(NaN)
  ELSE IF IsInf(a) \/ IsZero(a) THEN Ret(a)
  ELSE Pow3Result(RoundDirected(a.s, BigMul(a.m, BigMul(a.m, a.m)), 3 * a.e, up))

\* the libm has a choice for a ** 3: the exact cube is no float
PowInexact(a) == PyPow3(a, FALSE) # PyPow3(a, TRUE)

\* a / b
PyDiv(a, b) == IF IsZero(b) THEN Raise("ZeroDivisionError") ELSE Ret(FDiv(a, b))

\* math.sqrt(a)
MathSqrt(a) ==
  IF IsNaN(a) \/ IsZero(a) THEN Ret(a)
  ELSE IF a.s = 1 THEN Raise("ValueError")
  ELSE IF IsInf(a) THEN Ret(a)
  ELSE Ret(SqrtFinite(a))

\* math.pi, the double 0x400921FB54442D18 = 7074237752028440 * 2^-51 (3.141592653589793)
MathPi == Fin(0, <<11544, 10376, 2029, 201>>, -51)

\* the literal 398600.4418 of line 4
EarthMuLiteral == Literal(<<"3", "9", "8", "6", "0", "0", ".", "4", "4", "1", "8">>)

(***************************************************************************)
(* The physics functions.                                                  *)
(***************************************************************************)
\* 2 * math.pi * root
PeriodScale(root) ==
  IF Raised(root) THEN root
  ELSE Ret(FMul(FMul(IntToFloat(2), MathPi), root.val))

\* math.sqrt(quot)
PeriodSqrt(quot) == IF Raised(quot) THEN quot ELSE PeriodScale(MathSqrt(quot.val))

\* cube / mu
PeriodDiv(cube, mu) == IF Raised(cube) THEN cube ELSE PeriodSqrt(PyDiv(cube.val, mu))

\* a variant with the ratio inverted: 2 * math.pi * math.sqrt(mu / semi_major_axis ** 3)
InvertedDiv(cube, mu) ==
  IF Raised(cube) THEN cube ELSE PeriodSqrt(PyDiv(mu, cube.val))

orbital_period_inverted(semi_major_axis, mu, up) ==
  InvertedDiv(PyPow3(semi_major_axis, up), mu)

\* 2 * math.pi * math.sqrt(semi_major_axis ** 3 / mu), on a libm whose pow
\* makes the choice up
orbital_period(semi_major_axis, mu, up) == PeriodDiv(PyPow3(semi_major_axis, up), mu)

\* a variant with the sign slipped: semi_major_axis * (1 + eccentricity)
periapsis_distance_plus(semi_major_axis, eccentricity) ==
  FMul(semi_major_axis, FAdd(IntToFloat(1), eccentricity))

\* semi_major_axis * (1 - eccentricity)
periapsis_distance(semi_major_axis, eccentricity) ==
  FMul(semi_major_axis, FSub(IntToFloat(1), eccentricity))

\* a variant with the sign slipped: semi_major_axis * (1 - eccentricity)
apoapsis_distance_minus(semi_major_axis, eccentricity) ==
  FMul(semi_major_axis, FSub(IntToFloat(1), eccentricity))

\* semi_major_axis * (1 + eccentricity)
apoapsis_distance(semi_major_axis, eccentricity) ==
  FMul(semi_major_axis, FAdd(IntToFloat(1), eccentricity))

(***************************************************************************)
(* "%.2f" % x for a finite x >= 0 below 2^31 / 100: the number of          *)
(* hundredths, the exact value rounded half to even.                       *)
(***************************************************************************)
BigToInt(q) == Limb(q, 1) + Limb(q, 2) * Base + Limb(q, 3) * Base * Base

HundredthsRound(q, half, sticky) ==
  IF half /\ (sticky \/ BigIsOdd(q)) THEN BigToInt(q) + 1 ELSE BigToInt(q)

HundredthsOf(M, e) ==
  IF e >= 0 THEN BigToInt(BigShl(M, e))
  ELSE HundredthsRound(BigShr(M, 0 - e), BigBit(M, 0 - e - 1) = 1,
                       BigLowNonZero(M, 0 - e - 1))

Hundredths(x) == HundredthsOf(BigMulSmall(x.m, 100, 0), x.e)

(***************************************************************************)
(* The program state.                                                      *)
(*   EARTH_MU                 the module global of line 4                  *)
(*   orbital_period_defaults  the default of mu, bound when line 7 runs    *)
(*   serving                  app.run() of line 90 has been entered        *)
(*   stdout                   what main.py's own statements have printed   *)
(*   st, args, resp           per server thread: the request in flight     *)
(*                            (request.args) and the handler's response    *)
(* the platform under the program,                                         *)
(*   pow_rounding             the libm's pow(a, 3.0) where it has been     *)
(*                            called and the exact cube is no float: TRUE  *)
(*                            for the neighbour away from zero.  pow is a  *)
(*                            function, so a choice once seen stays.       *)
(* and, for the physics functions called directly,                         *)
(*   in_a, in_a2, in_e, in_mu the arguments                                *)
(*   peri, apo                the outcomes of periapsis_distance(in_a,     *)
(*                            in_e) and apoapsis_distance(in_a, in_e)      *)
(*   period, period2          the outcomes of orbital_period(in_a, in_mu)  *)
(*                            and orbital_period(in_a2, in_mu)             *)
(***************************************************************************)
VARIABLES EARTH_MU, orbital_period_defaults, serving, stdout, st, args, resp,
          pow_rounding,
          in_a, in_a2, in_e, in_mu, peri, apo, period, period2

httpVars == <<EARTH_MU, orbital_period_defaults, serving, stdout, st, args, resp>>

physVars == <<in_a, in_a2, in_e, in_mu, peri, apo, period, period2>>

vars == <<EARTH_MU, orbital_period_defaults, serving, stdout, st, args, resp,
          pow_rounding,
          in_a, in_a2, in_e, in_mu, peri, apo, period, period2>>

(***************************************************************************)
(* The libm's pow on the cubes asked of it.                                *)
(***************************************************************************)
\* what pow(a, 3.0) may do: what it did before for the same a, else either
\* neighbour of the exact cube
PowChoices(a) ==
  IF a \in DOMAIN pow_rounding THEN {pow_rounding[a]}
  ELSE IF PowInexact(a) THEN BOOLEAN
  ELSE {FALSE}

\* pow_rounding after pow(a, 3.0) was called and did up
Remember(a, up) ==
  IF PowInexact(a) /\ a \notin DOMAIN pow_rounding THEN (a :> up) @@ pow_rounding
  ELSE pow_rounding

\* the server threads that can each hold one request
Threads == {1, 2}

(***************************************************************************)
(* The handler of GET /calculate.                                          *)
(***************************************************************************)
ErrorBody == [error |-> "Invalid or missing parameters"]

Response(status, body) == [status |-> status, body |-> body]

NoResponse == Response(0, [none |-> TRUE])

HandledExceptions == {"KeyError", "TypeError", "ValueError"}

\* request.args is the query string decoded: the sequence of its <<name, value>>
\* pairs, in their order
HasArg(query, key) == \E i \in 1..Len(query) : query[i][1] = key

\* request.args[key]: the first value given for the key
GetArg(query, key) == query[SetMin({i \in 1..Len(query) : query[i][1] = key})][2]

\* a variant that takes a missing or unparseable parameter as 0.0
FloatArgOrZero(query, key) ==
  IF HasArg(query, key) /\ ~Raised(PyFloat(GetArg(query, key)))
  THEN PyFloat(GetArg(query, key))
  ELSE Ret(Zero(0))

\* float(request.args[key]): KeyError when the key is missing, else float(value)
FloatArg(query, key) ==
  IF HasArg(query, key) THEN PyFloat(GetArg(query, key)) ELSE Raise("KeyError")

\* lines 80-86: the three results as JSON; an exception raised here leaves the
\* handler and becomes Flask's 500 response
CalcRespond(sma, ecc, T) ==
  IF Raised(T) THEN Response(500, [exception |-> T.exc])
  ELSE Response(200, [periapsis |-> periapsis_distance(sma, ecc),
                      apoapsis |-> apoapsis_distance(sma, ecc),
                      orbital_period |-> T.val])

\* lines 74-78: either conversion failing gives the 400 response
CalcParsed(sma, ecc, mu_default, up) ==
  IF sma.exc \in HandledExceptions THEN Response(400, ErrorBody)
  ELSE IF ecc.exc \in HandledExceptions THEN Response(400, ErrorBody)
  ELSE CalcRespond(sma.val, ecc.val, orbital_period(sma.val, mu_default, up))

\* a variant that validates the ranges: a > 0 and 0 <= e < 1, else the 400 response
ValidatingParsed(sma, ecc, mu_default, up) ==
  IF sma.exc \in HandledExceptions \/ ecc.exc \in HandledExceptions
    THEN Response(400, ErrorBody)
  ELSE IF ~FLt(Zero(0), sma.val) \/ ~FLe(Zero(0), ecc.val) \/ ~FLt(ecc.val, IntToFloat(1))
    THEN Response(400, ErrorBody)
  ELSE CalcRespond(sma.val, ecc.val, orbital_period(sma.val, mu_default, up))

calculate_validating(query, mu_default, up) ==
  ValidatingParsed(FloatArg(query, "semi_major_axis"), FloatArg(query, "eccentricity"),
                   mu_default, up)

\* a variant that lets the request choose the gravitational parameter
calculate_with_mu(query, mu_default, up) ==
  CalcParsed(FloatArg(query, "semi_major_axis"), FloatArg(query, "eccentricity"),
             IF HasArg(query, "mu") THEN Literal(GetArg(query, "mu")) ELSE mu_default,
             up)

\* calculate(), for request.args = query; mu_default is orbital_period's default
\* and up the libm's choice for semi_major_axis ** 3
calculate(query, mu_default, up) ==
  CalcParsed(FloatArg(query, "semi_major_axis"), FloatArg(query, "eccentricity"),
             mu_default, up)

\* the argument of pow in calculate(): the semi-major axis, when both
\* conversions succeed (nan, whose cube is nan, stands for no call)
PowArgParsed(sma, ecc) == IF Raised(sma) \/ Raised(ecc) THEN NaN ELSE sma.val

PowArg(query) ==
  PowArgParsed(FloatArg(query, "semi_major_axis"), FloatArg(query, "eccentricity"))

(***************************************************************************)
(* The requests the model sends: decoded query strings, each value a       *)
(* sequence of characters.                                                 *)
(***************************************************************************)
NoParams == <<>>

Req(a, e) == << <<"semi_major_axis", a>>, <<"eccentricity", e>> >>

S_7000 == <<"7", "0", "0", "0">>

S_0_01 == <<"0", ".", "0", "1">>

\* 7000 with a form feed, a fullwidth digit, an underscore and a no-break space
S_7000_Unicode == <<"\f", "U+FF17", "_", "0", "0", "0", NoBreakSpace>>

\* 0.01 with an Arabic-Indic digit in the exponent
S_0_01_Unicode == <<"1", "e", "-", "U+0662">>

\* an axis whose cube falls between two floats
S_6254 == <<"6", "2", "5", "4", ".", "6", "2", "7", "4", "5", "4", "9", "5", "6", "9", "3">>

\* a line "<quantity>: <value with two decimals>" on standard output
Line(quantity, value) == [quantity |-> quantity, hundredths |-> Hundredths(value)]

\* a variant that prints the three results for a = 7000 km, e = 0.01
SmokeTestOutput ==
  << Line("periapsis_km", periapsis_distance(Literal(S_7000), Literal(S_0_01))),
     Line("apoapsis_km", apoapsis_distance(Literal(S_7000), Literal(S_0_01))),
     Line("orbital_period_min",
          FDiv(orbital_period(Literal(S_7000), EarthMuLiteral, FALSE).val,
               IntToFloat(60))) >>

\* what the __main__ block prints itself: nothing, it only starts the server
MainOutput == <<>>

\* values float() accepts
NumericValues ==
  { S_7000, S_0_01, S_7000_Unicode, S_0_01_Unicode, S_6254,
    <<"-", "1">>, <<"0">>, <<"1", "e", "2", "0", "0">>, <<"2">> }

\* values float() rejects
BadValues == { <<>>, <<"a", "b", "c">> }

Requests ==
  { Req(S_7000, S_0_01),
    Req(S_7000, S_0_01) \o << <<"semi_major_axis", <<"a", "b", "c">> >>,
                              <<"mu", <<"1">> >> >>,
    Req(S_7000_Unicode, S_0_01_Unicode),
    << <<"eccentricity", S_0_01>> >>,
    Req(<<"a", "b", "c">>, S_0_01),
    Req(S_7000, <<>>),
    Req(<<"-", "1">>, S_0_01),
    Req(<<"0">>, S_0_01),
    Req(<<"1", "e", "2", "0", "0">>, S_0_01),
    Req(S_7000, <<"2">>),
    Req(S_6254, S_0_01) }

(***************************************************************************)
(* The arguments of the direct calls, written as Python would read them.   *)
(***************************************************************************)
Floats(texts) == {Literal(t) : t \in texts}

\* semi-major axes for the distances: typical, tiny (subnormal and smallest
\* normal), huge, and one outside the domain
DistanceAxes ==
  Floats({ S_7000, <<"1">>, <<"3">>, <<"7">>, <<"0", ".", "3">>,
           <<"4", "2", "1", "6", "4">>,
           <<"5", "e", "-", "3", "2", "4">>,
           <<"2", ".", "2", "2", "5", "0", "7", "3", "8", "5", "8", "5", "0", "7",
             "2", "0", "1", "4", "e", "-", "3", "0", "8">>,
           <<"1", "e", "3", "0", "8">>,
           <<"-", "1">> })

\* eccentricities: circular, typical, below and at the machine epsilon, just
\* below 1, and two outside the domain
Eccentricities ==
  Floats({ <<"0">>, S_0_01, <<"0", ".", "1">>, <<"0", ".", "3">>, <<"0", ".", "5">>,
           <<"0", ".", "9">>, <<"1", "e", "-", "1", "7">>,
           <<"2", ".", "2", "2", "0", "4", "4", "6", "0", "4", "9", "2", "5", "0",
             "3", "1", "3", "e", "-", "1", "6">>,
           <<"0", ".", "9", "9", "9", "9", "9", "9", "9", "9", "9", "9", "9", "9",
             "9", "9", "9", "9">>,
           <<"1">>, <<"-", "0", ".", "5">> })

\* semi-major axes for the period: two adjacent doubles, typical orbits (one
\* with an inexact cube), values whose cube underflows or overflows, zero and a
\* negative
PeriodAxes ==
  Floats({ <<"3">>,
           <<"3", ".", "0", "0", "0", "0", "0", "0", "0", "0", "0", "0", "0", "0",
             "0", "0", "0", "4">>,
           S_6254, S_7000,
           <<"1", "e", "-", "2", "0", "0">>, <<"2", "e", "-", "2", "0", "0">>,
           <<"1", "e", "2", "0", "0">>,
           <<"0">>, <<"-", "1">> })

GravitationalParameters ==
  Floats({ <<"3", "9", "8", "6", "0", "0", ".", "4", "4", "1", "8">>,
           <<"1">>, <<"0">> })

Unset == [exc |-> "unset", val |-> NaN]

IsSet(r) == r.exc # "unset"

\* no direct call is under way
PhysIdle ==
  /\ in_a = NaN /\ in_a2 = NaN /\ in_e = NaN /\ in_mu = NaN
  /\ peri = Unset /\ apo = Unset /\ period = Unset /\ period2 = Unset

\* the module has been executed down to line 86
Imported ==
  /\ EARTH_MU = EarthMuLiteral
  /\ orbital_period_defaults = EARTH_MU
  /\ serving = FALSE
  /\ stdout = <<>>
  /\ st = [t \in Threads |-> "idle"]
  /\ args = [t \in Threads |-> NoParams]
  /\ resp = [t \in Threads |-> NoResponse]
  /\ pow_rounding = [a \in {} |-> FALSE]

Init == Imported /\ PhysIdle

\* lines 89-90: run as the main module, the program starts the server
Main ==
  /\ ~serving
  /\ serving' = TRUE
  /\ stdout' = stdout \o MainOutput
  /\ UNCHANGED <<EARTH_MU, orbital_period_defaults, st, args, resp, pow_rounding>>
  /\ UNCHANGED physVars

\* a GET /calculate request with the query q reaches thread t
Arrive(t, q) ==
  /\ serving
  /\ st[t] = "idle"
  /\ st' = [st EXCEPT ![t] = "pending"]
  /\ args' = [args EXCEPT ![t] = q]
  /\ UNCHANGED <<EARTH_MU, orbital_period_defaults, serving, stdout, resp,
                 pow_rounding>>
  /\ UNCHANGED physVars

\* the handler's response on thread t, its call of pow, if any, being pow(a, 3.0)
Handle(t, a) ==
  \E up \in PowChoices(a) :
     /\ resp' = [resp EXCEPT ![t] = calculate(args[t], orbital_period_defaults, up)]
     /\ pow_rounding' = Remember(a, up)

\* thread t runs the handler, lines 63-86
Calculate(t) ==
  /\ st[t] = "pending"
  /\ st' = [st EXCEPT ![t] = "done"]
  /\ Handle(t, PowArg(args[t]))
  /\ UNCHANGED <<EARTH_MU, orbital_period_defaults, serving, stdout, args>>
  /\ UNCHANGED physVars

\* the response of thread t has been sent
Respond(t) ==
  /\ st[t] = "done"
  /\ st' = [st EXCEPT ![t] = "idle"]
  /\ args' = [args EXCEPT ![t] = NoParams]
  /\ resp' = [resp EXCEPT ![t] = NoResponse]
  /\ UNCHANGED <<EARTH_MU, orbital_period_defaults, serving, stdout, pow_rounding>>
  /\ UNCHANGED physVars

Next ==
  \/ Main
  \/ \E t \in Threads, q \in Requests : Arrive(t, q)
  \/ \E t \in Threads : Calculate(t)
  \/ \E t \in Threads : Respond(t)

\* the program run as a server
Spec == Init /\ [][Next]_vars

(***************************************************************************)
(* periapsis_distance and apoapsis_distance called directly on one pair of *)
(* arguments.                                                              *)
(***************************************************************************)
InitDistances ==
  /\ Imported
  /\ in_a \in DistanceAxes /\ in_e \in Eccentricities
  /\ in_a2 = NaN /\ in_mu = NaN
  /\ peri = Unset /\ apo = Unset /\ period = Unset /\ period2 = Unset

CallPeriapsis ==
  /\ ~IsSet(peri)
  /\ peri' = Ret(periapsis_distance(in_a, in_e))
  /\ UNCHANGED <<in_a, in_a2, in_e, in_mu, apo, period, period2>>
  /\ UNCHANGED <<httpVars, pow_rounding>>

CallApoapsis ==
  /\ ~IsSet(apo)
  /\ apo' = Ret(apoapsis_distance(in_a, in_e))
  /\ UNCHANGED <<in_a, in_a2, in_e, in_mu, peri, period, period2>>
  /\ UNCHANGED <<httpVars, pow_rounding>>

NextDistances == CallPeriapsis \/ CallApoapsis

SpecDistances == InitDistances /\ [][NextDistances]_vars

(***************************************************************************)
(* orbital_period called directly on two semi-major axes with one mu.      *)
(***************************************************************************)
InitPeriod ==
  /\ Imported
  /\ in_a \in PeriodAxes /\ in_a2 \in PeriodAxes /\ in_mu \in GravitationalParameters
  /\ in_e = NaN
  /\ peri = Unset /\ apo = Unset /\ period = Unset /\ period2 = Unset

CallPeriod ==
  /\ ~IsSet(period)
  /\ \E up \in PowChoices(in_a) :
        /\ period' = orbital_period(in_a, in_mu, up)
        /\ pow_rounding' = Remember(in_a, up)
  /\ UNCHANGED <<in_a, in_a2, in_e, in_mu, peri, apo, period2>>
  /\ UNCHANGED httpVars

CallPeriod2 ==
  /\ IsSet(period) /\ ~IsSet(period2)
  /\ \E up \in PowChoices(in_a2) :
        /\ period2' = orbital_period(in_a2, in_mu, up)
        /\ pow_rounding' = Remember(in_a2, up)
  /\ UNCHANGED <<in_a, in_a2, in_e, in_mu, peri, apo, period>>
  /\ UNCHANGED httpVars

NextPeriod == CallPeriod \/ CallPeriod2

SpecPeriod == InitPeriod /\ [][NextPeriod]_vars

(***************************************************************************)
(* Vocabulary of the properties.                                           *)
(***************************************************************************)
Params == {"semi_major_axis", "eccentricity"}

\* a required parameter is missing or has a value float() rejects
InvalidInput(q) == \E k \in Params : ~HasArg(q, k) \/ GetArg(q, k) \in BadValues

\* both required parameters are present with values float() accepts
ValidInput(q) == \A k \in Params : HasArg(q, k) /\ GetArg(q, k) \in NumericValues

\* two queries agree on the required parameters
SameParams(q1, q2) ==
  \A k \in Params :
     /\ HasArg(q1, k) <=> HasArg(q2, k)
     /\ HasArg(q1, k) => GetArg(q1, k) = GetArg(q2, k)

\* the response the specification describes for the numeric parameters a and e,
\* on a libm whose pow makes the choice up
SuccessFor(a, e, up) ==
  Response(200,
    [periapsis |-> periapsis_distance(a, e),
     apoapsis |-> apoapsis_distance(a, e),
     orbital_period |-> orbital_period(a, EarthMuLiteral, up).val])

SuccessResponses(q) ==
  { SuccessFor(Literal(GetArg(q, "semi_major_axis")),
               Literal(GetArg(q, "eccentricity")), up) : up \in BOOLEAN }

FZero == Zero(0)

FOne == IntToFloat(1)

FAbs(a) == IF IsNaN(a) THEN a ELSE [a EXCEPT !.s = 0]

\* 2^-52, the distance from 1.0 to the next double
MachineEpsilon ==
  Literal(<<"2", ".", "2", "2", "0", "4", "4", "6", "0", "4", "9", "2", "5", "0",
            "3", "1", "3", "e", "-", "1", "6">>)

\* 2^51
TwoTo51 ==
  Literal(<<"2", "2", "5", "1", "7", "9", "9", "8", "1", "3", "6", "8", "5", "2",
            "4", "8">>)

\* a finite double with a full 53-bit significand
IsNormal(a) == IsFinite(a) /\ BigBitLen(a.m) = Precision

\* the arguments of the distance calls describe an elliptical orbit
ValidOrbit == FLt(FZero, in_a) /\ FLe(FZero, in_e) /\ FLt(in_e, FOne)

DistancesDone == IsSet(peri) /\ IsSet(apo)

TwiceAxis == FMul(IntToFloat(2), in_a)

\* the arguments of the period calls: 0 < in_a < in_a2 and mu > 0
ValidPair == FLt(FZero, in_mu) /\ FLt(FZero, in_a) /\ FLt(in_a, in_a2)

\* a ** 3 neither underflows nor overflows, whichever neighbour pow returns: the
\* exact cube lies between the smallest normal float and the largest float
CubeInRange(a) ==
  \A up \in BOOLEAN : ~Raised(PyPow3(a, up)) /\ IsNormal(PyPow3(a, up).val)

PeriodsDone == IsSet(period) /\ IsSet(period2)

(***************************************************************************)
(* Properties of the server (specification Spec).                          *)
(***************************************************************************)

\* C1: a request in which semi_major_axis or eccentricity is missing, or has a
\* value that does not parse as a float, is answered with status 400 and the
\* body {"error": "Invalid or missing parameters"}.
C1_InvalidInputGets400 ==
  \A t \in Threads :
     st[t] = "done" /\ InvalidInput(args[t]) => resp[t] = Response(400, ErrorBody)

\* a request whose eccentricity is the empty string has been answered with 400
C1_Witness ==
  \E t \in Threads :
     /\ st[t] = "done"
     /\ args[t] = Req(S_7000, <<>>)
     /\ resp[t].status = 400

\* C2 as stated: whenever both parameters parse as floats the answer is 200 with
\* exactly periapsis = a(1 - e), apoapsis = a(1 + e) and orbital_period =
\* orbital_period(a) under Earth's mu.
C2_NumericInputGets200 ==
  \A t \in Threads :
     st[t] = "done" /\ ValidInput(args[t]) => resp[t] \in SuccessResponses(args[t])

\* C3 as stated: every request ends in the 200 response or the 400 response.
C3_Only200Or400 ==
  \A t \in Threads : st[t] = "done" => resp[t].status \in {200, 400}

\* C8: no range validation: a request whose two parameters parse as floats is
\* never answered with 400, whatever their values (a <= 0, e < 0, e >= 1, nan).
C8_NoRangeValidation ==
  \A t \in Threads :
     st[t] = "done" /\ ValidInput(args[t]) => resp[t].status # 400

\* a request with eccentricity 2 has been answered with 200
C8_Witness ==
  \E t \in Threads :
     /\ st[t] = "done"
     /\ args[t] = Req(S_7000, <<"2">>)
     /\ resp[t].status = 200

\* C9 as stated: run standalone, the program prints the periapsis, the apoapsis
\* and the period in minutes of the orbit a = 7000 km, e = 0.01, to two decimals.
C9_StandalonePrintsExample == serving => stdout = SmokeTestOutput

\* C9, amended: run standalone, the program starts the server and its own
\* statements print nothing; the example's values (6930.00 km, 7070.00 km,
\* 97.14 min) are what GET /calculate answers for a = 7000, e = 0.01.
C9_StandaloneOnlyServes ==
  /\ serving => stdout = <<>>
  /\ \A t \in Threads :
        st[t] = "done" /\ args[t] = Req(S_7000, S_0_01) =>
          /\ serving
          /\ resp[t].status = 200
          /\ Hundredths(resp[t].body.periapsis) = 693000
          /\ Hundredths(resp[t].body.apoapsis) = 707000
          /\ Hundredths(FDiv(resp[t].body.orbital_period, IntToFloat(60))) = 9714

\* the server is running and has answered the example request
C9_Witness ==
  /\ serving
  /\ \E t \in Threads : st[t] = "done" /\ args[t] = Req(S_7000, S_0_01)

\* C10: requests are independent: the answer depends only on the request's own
\* two parameters (two requests that agree on them get the same answer, whatever
\* else they carry, whatever was served before and whichever way the libm
\* rounds), and EARTH_MU, with the default bound from it, keeps its initial value.
C10_Stateless ==
  /\ EARTH_MU = EarthMuLiteral
  /\ orbital_period_defaults = EARTH_MU
  /\ \A t1, t2 \in Threads :
        st[t1] = "done" /\ st[t2] = "done" /\ SameParams(args[t1], args[t2])
          => resp[t1] = resp[t2]

\* two different requests that agree on the two parameters have been answered
C10_Witness ==
  /\ st[1] = "done" /\ st[2] = "done"
  /\ args[1] # args[2]
  /\ SameParams(args[1], args[2])
  /\ resp[1].status = 200

(***************************************************************************)
(* Properties of the distances (specification SpecDistances).              *)
(***************************************************************************)

\* C5 as stated: for a > 0 and 0 <= e < 1, periapsis <= a <= apoapsis, with
\* equality only when e = 0.
C5_EqualityOnlyWhenCircular ==
  DistancesDone /\ ValidOrbit =>
    /\ FLe(peri.val, in_a) /\ FLe(in_a, apo.val)
    /\ FEq(peri.val, in_a) => IsZero(in_e)
    /\ FEq(apo.val, in_a) => IsZero(in_e)

\* C5, amended: for a > 0 and 0 <= e < 1, periapsis <= a <= apoapsis; both are
\* equal to a when e = 0; both inequalities are strict when e is at least the
\* machine epsilon 2^-52 and a is a normal double (for a smaller e, 1 - e or
\* 1 + e rounds to 1.0 and the distance equals a).
C5_DistanceBounds ==
  DistancesDone /\ ValidOrbit =>
    /\ FLe(peri.val, in_a) /\ FLe(in_a, apo.val)
    /\ IsZero(in_e) => FEq(peri.val, in_a) /\ FEq(apo.val, in_a)
    /\ FLe(MachineEpsilon, in_e) /\ IsNormal(in_a) =>
         FLt(peri.val, in_a) /\ FLt(in_a, apo.val)

\* both distances computed for an eccentric orbit, strictly around a
C5_Witness ==
  /\ DistancesDone /\ ValidOrbit
  /\ FLe(MachineEpsilon, in_e) /\ IsNormal(in_a)
  /\ FLt(peri.val, in_a) /\ FLt(in_a, apo.val)

\* C6 as stated: periapsis + apoapsis equals 2a.
C6_SumIsTwiceAxis ==
  DistancesDone /\ ValidOrbit => FEq(FAdd(peri.val, apo.val), TwiceAxis)

\* C6, amended: for a normal a > 0 with 2a finite and 0 <= e < 1, periapsis +
\* apoapsis equals 2a up to rounding: |(periapsis + apoapsis) - 2a| <= 2^-51 * 2a.
C6_SumNearTwiceAxis ==
  DistancesDone /\ ValidOrbit /\ IsNormal(in_a) /\ IsFinite(TwiceAxis) =>
    FLe(FMul(FAbs(FSub(FAdd(peri.val, apo.val), TwiceAxis)), TwoTo51), TwiceAxis)

\* both distances computed, and their sum is off 2a by a rounding error
C6_Witness ==
  /\ DistancesDone /\ ValidOrbit /\ IsNormal(in_a) /\ IsFinite(TwiceAxis)
  /\ ~FEq(FAdd(peri.val, apo.val), TwiceAxis)

(***************************************************************************)
(* Properties of the period (specification SpecPeriod).                    *)
(***************************************************************************)

\* C4 as stated: orbital_period with a semi-major axis of zero or less raises an
\* error instead of returning a number.
C4_NonPositiveAxisRejected ==
  IsSet(period) /\ FLe(in_a, FZero) => Raised(period)

\* C7 as stated: for mu > 0, the period is strictly increasing in the
\* semi-major axis: 0 < a1 < a2 gives orbital_period(a1) < orbital_period(a2).
C7_StrictlyIncreasing ==
  PeriodsDone /\ ValidPair =>
    ~Raised(period) /\ ~Raised(period2) /\ FLt(period.val, period2.val)

\* C7, amended: for mu > 0 and 0 < a1 < a2 whose exact cubes lie between the
\* smallest normal float and the largest float, both calls return and
\* orbital_period(a1) <= orbital_period(a2), whichever way the libm rounds the
\* cubes: the period never decreases, but neighbouring axes can share one period.
C7_NonDecreasing ==
  PeriodsDone /\ ValidPair /\ CubeInRange(in_a) /\ CubeInRange(in_a2) =>
    ~Raised(period) /\ ~Raised(period2) /\ FLe(period.val, period2.val)

\* two periods computed for 0 < a1 < a2 with cubes in range, the first cube
\* rounded away from zero, the second the longer period
C7_Witness ==
  /\ PeriodsDone /\ ValidPair /\ CubeInRange(in_a) /\ CubeInRange(in_a2)
  /\ in_a \in DOMAIN pow_rounding /\ pow_rounding[in_a]
  /\ FLt(period.val, period2.val)

====
